---- MODULE Spec2Model ----
(***************************************************************************)
(* Model of auto_quality_optimizer-webp.py: a batch that converts every    *)
(* PNG/JPEG of a source folder to WebP, choosing per image, by binary      *)
(* search over the encoder quality, the lowest quality whose SSIM against  *)
(* the source meets TARGET_SSIM.                                           *)
(*                                                                         *)
(* The external collaborators are the cwebp executable and the PIL/skimage *)
(* similarity measurement.  Both are deterministic functions of what they  *)
(* read, except that a cwebp process may exit non-zero at any invocation.  *)
(* Scores are integers in thousandths (0.98 is 980).                       *)
(* File names are records [root, ext] so that os.path.splitext and         *)
(* str.lower can be computed; file sizes (which only feed the printed      *)
(* savings) are not modelled.                                              *)
(***************************************************************************)
EXTENDS Integers, Sequences, FiniteSets, TLC

\* ------------------------------------------------------------ configuration
TARGET_SSIM == 980
MIN_QUALITY == 40
MAX_QUALITY == 95
WEBP_METHOD == 6

\* ------------------------------------------------------------------ bounds
\* Edited configurations have floor = MIN_QUALITY and at most MaxWidth + 1
\* qualities; for those every similarity outcome is enumerated.
MaxWidth == 3
\* The history counters of one image saturate at CallCap.
CallCap == 9
\* The log of one run's encoder invocations saturates at LogCap.
LogCap == 16
\* The pixel arrays the evaluator is checked on have NPix pixels with grey
\* values 0 .. MaxPixel.
NPix == 2
MaxPixel == 2

\* ---------------------------------------------------------- the tool check
\* found: shutil.which(name) returned a path.
is_tool_installed_unchecked(found) == TRUE

is_tool_installed(found) == found

\* ------------------------------------------------------------ file names
File(r, e) == [root |-> r, ext |-> e]

FileNames ==
    { File("a", ".png"), File("a", ".JPG"), File("temp", ".jpeg"),
      File("notes", ".txt") }

lower(e) ==
    CASE e = ".PNG"  -> ".png"
      [] e = ".JPG"  -> ".jpg"
      [] e = ".JPEG" -> ".jpeg"
      [] e = ".TXT"  -> ".txt"
      [] OTHER       -> e

IsImage_any(f) == TRUE

IsImage(f) == lower(f.ext) \in {".png", ".jpg", ".jpeg"}

splitext(f) == f.root

output_path(f) == File(splitext(f), ".webp")

temp_path == File("temp", ".webp")

NoFile == File("", "")

\* ------------------------------------------------- the output folder's files
EmptyFS == [p \in {} |-> 0]

exists(fs, p) == p \in DOMAIN fs

WriteFile(fs, p, c) == [x \in (DOMAIN fs) \cup {p} |-> IF x = p THEN c ELSE fs[x]]

remove(fs, p) == [x \in (DOMAIN fs) \ {p} |-> fs[x]]

\* ------------------------------------------------------------ the encoder
NoCmd == [q |-> -1, m |-> -1, mt |-> FALSE, sharp_yuv |-> FALSE,
          input |-> NoFile, o |-> NoFile]

SearchCmd_sharp(q, input, tmp) ==
    [q |-> q, m |-> WEBP_METHOD, mt |-> TRUE, sharp_yuv |-> TRUE,
     input |-> input, o |-> tmp]

SearchCmd(q, input, tmp) ==
    [q |-> q, m |-> WEBP_METHOD, mt |-> FALSE, sharp_yuv |-> FALSE,
     input |-> input, o |-> tmp]

FinalCmd(q, input, outp) ==
    [q |-> q, m |-> WEBP_METHOD, mt |-> TRUE, sharp_yuv |-> TRUE,
     input |-> input, o |-> outp]

\* What a cwebp process leaves on disk: on success the encoding of its input
\* at its quality, effort and filter; on a non-zero exit nothing.
cwebp(cmd, fs, ok) ==
    IF ok
    THEN WriteFile(fs, cmd.o, [src |-> cmd.input, q |-> cmd.q, m |-> cmd.m,
                               sharp_yuv |-> cmd.sharp_yuv])
    ELSE fs

\* subprocess.run(..., check=True) raises on a non-zero exit.
CalledProcessError_unchecked(check, ok) == FALSE

CalledProcessError(check, ok) == check /\ ~ok

\* -------------------------------------------------------- the similarity
\* A source image is described by whether PIL can read it and by the set of
\* qualities at which its encoding scores at least the target.
Profile(r, g) == [readable |-> r, good |-> g]

ssim(profile, ref, cand) ==
    IF cand.src = ref /\ cand.q \in profile.good THEN 990 ELSE 970

calculate_ssim(img1_path, img2_path, fs, imgs) ==
    IF imgs[img1_path].readable /\ exists(fs, img2_path)
    THEN ssim(imgs[img1_path], img1_path, fs[img2_path])
    ELSE 0

\* ------------------------------------------- the similarity, on pixel arrays
\* A greyscale image as np.array(Image.open(path).convert('L')) gives it: a
\* record with the sequence px of grey values, readable = FALSE when PIL
\* raises.  Both images have the same size, as they have after lines 38-39.
RECURSIVE SumOver(_, _, _)
SumOver(a, b, i) == IF i > Len(a) THEN 0 ELSE a[i] * b[i] + SumOver(a, b, i + 1)

Ones(a) == [i \in 1 .. Len(a) |-> 1]

ArrayMax(a) == CHOOSE v \in { a[i] : i \in 1 .. Len(a) } : \A i \in 1 .. Len(a) : a[i] <= v

ArrayMin(a) == CHOOSE v \in { a[i] : i \in 1 .. Len(a) } : \A i \in 1 .. Len(a) : v <= a[i]

\* Line 44: data_range = img2_arr.max() - img2_arr.min().
data_range(a) == ArrayMax(a) - ArrayMin(a)

\* Scores are in thousandths, as TARGET_SSIM is; nan marks the float NaN.
NaN == [nan |-> TRUE, value |-> 0]

Score(v) == [nan |-> FALSE, value |-> v]

\* The structural similarity index of x and y over one window, with sample
\* covariances and the constants C1 = (0.01 R)^2, C2 = (0.03 R)^2:
\*   ((2 mx my + C1)(2 cxy + C2)) / ((mx^2 + my^2 + C1)(vx + vy + C2)),
\* each factor rounded down to thousandths; a zero denominator gives 0/0, NaN.
structural_similarity(x, y, R) ==
    LET n   == Len(x)
        sx  == SumOver(x, Ones(x), 1)
        sy  == SumOver(y, Ones(y), 1)
        sxx == SumOver(x, x, 1)
        syy == SumOver(y, y, 1)
        sxy == SumOver(x, y, 1)
        A1  == 20000 * sx * sy + n * n * R * R
        B1  == 10000 * (sx * sx + sy * sy) + n * n * R * R
        A2  == 20000 * (n * sxy - sx * sy) + 9 * n * (n - 1) * R * R
        B2  == 10000 * ((n * sxx - sx * sx) + (n * syy - sy * sy))
                   + 9 * n * (n - 1) * R * R
    IN  IF B1 = 0 \/ B2 = 0
        THEN NaN
        ELSE Score((((1000 * A1) \div B1) * ((1000 * A2) \div B2)) \div 1000)

\* Lines 30-47 on pixel arrays: the library's value, or 0 when PIL raised.
calculate_ssim_arrays(img1, img2) ==
    IF ~img1.readable \/ ~img2.readable
    THEN Score(0)
    ELSE structural_similarity(img1.px, img2.px, data_range(img2.px))

\* ------------------------------------------------------- the search steps
LoopCond(l, h) == l <= h

Midpoint(l, h) == (l + h) \div 2

MeetsTarget_inverted(s) == s < TARGET_SSIM

MeetsTarget(s) == s >= TARGET_SSIM

InitBest_floor(cfg) == cfg.floor

InitBest(cfg) == cfg.ceiling

HighAfterMet_same(q) == q

HighAfterMet(q) == q - 1

LowAfterMiss_skip(q) == q + 2

LowAfterMiss(q) == q + 1

\* ------------------------------------------------------------------ state
VARIABLES
    tool_installed,  \* shutil.which('cwebp') is not None
    config,          \* [floor, ceiling]: the configured search range
    source_dir,      \* the file names in SOURCE_FOLDER
    images,          \* the profile of every image file of source_dir
    out_exists,      \* OUTPUT_FOLDER exists
    out,             \* the files of OUTPUT_FOLDER: path -> content
    listing,         \* os.listdir(SOURCE_FOLDER), in the order it is iterated
    idx,             \* position of the for loop in listing
    pc,              \* "start", "loop", "search", "done", "crashed"
    err,             \* the uncaught exception, or "none"
    filename,        \* the file being processed
    low, high, best_quality, quality,
    image_count,
    summary,         \* what the end of the run prints
    search_calls,    \* history: search-phase cwebp invocations of this image
    final_calls,     \* history: final cwebp invocations of this image
    tests,           \* history: the evaluations of this image, in order
    last_cmd,        \* history: the last cwebp invocation
    last_ok,         \* history: whether that invocation exited with status 0
    last_eval,       \* history: what the last evaluation compared
    log,             \* history: this run's cwebp invocations, [cmd, ok], in order
    prev,            \* how the previous run on this folder ended; pc = "none"
                     \* in a first run
    pixels,          \* [ref, cand, given]: two images handed to the evaluator
    measured         \* the score calculate_ssim returned for them

vars == << tool_installed, config, source_dir, images, out_exists, out,
           listing, idx, pc, err, filename, low, high, best_quality, quality,
           image_count, summary, search_calls, final_calls, tests, last_cmd,
           last_ok, last_eval, log, prev, pixels, measured >>

\* -------------------------------------------------------- initial states
Range(cfg) == cfg.floor .. cfg.ceiling

DefaultConfig == [floor |-> MIN_QUALITY, ceiling |-> MAX_QUALITY]

SmallConfigs == { [floor |-> MIN_QUALITY, ceiling |-> MIN_QUALITY + w] : w \in 0 .. MaxWidth }

Configs == {DefaultConfig} \cup SmallConfigs

Monotone(cfg) == { t .. cfg.ceiling : t \in cfg.floor .. cfg.ceiling + 1 }

GoodSets(cfg) ==
    IF cfg \in SmallConfigs
    THEN SUBSET Range(cfg)
    ELSE Monotone(cfg) \cup { {s} : s \in Range(cfg) }
                       \cup { Range(cfg) \ {d} : d \in Range(cfg) }

RichProfiles(cfg) ==
    { Profile(TRUE, g) : g \in GoodSets(cfg) } \cup { Profile(FALSE, Range(cfg)) }

BasicProfiles(cfg) ==
    { Profile(TRUE, Range(cfg)), Profile(TRUE, {}), Profile(FALSE, Range(cfg)) }

ImagesIn(dir) == { f \in dir : IsImage(f) }

ProfilesFor(cfg, dir) ==
    IF Cardinality(ImagesIn(dir)) <= 1 THEN RichProfiles(cfg) ELSE BasicProfiles(cfg)

Listings(dir) ==
    { s \in [1 .. Cardinality(dir) -> dir] :
        \A i, j \in 1 .. Cardinality(dir) : i # j => s[i] # s[j] }

Unreadable == [readable |-> FALSE, px |-> << >>]

NoPixels == [ref |-> Unreadable, cand |-> Unreadable, given |-> FALSE]

NotMeasured == [done |-> FALSE, score |-> Score(0)]

NoPrev ==
    [pc |-> "none", err |-> "none", out |-> EmptyFS, listing |-> << >>,
     log |-> << >>, image_count |-> 0]

\* os.listdir(SOURCE_FOLDER): some order of the folder's names, and the same
\* order again when the unchanged folder is listed by a second run.
listdir_fresh(dir, p) == Listings(dir)

listdir(dir, p) ==
    IF p.pc = "none" \/ p.listing \notin Listings(dir)
    THEN Listings(dir)
    ELSE {p.listing}

\* The exit statuses a deterministic encoder can give cmd: the one it gave
\* the same command in the previous run, when there was one.
ExitStatuses(cmd, p) ==
    LET same == { i \in 1 .. Len(p.log) : p.log[i].cmd = cmd }
    IN  IF same = {} THEN BOOLEAN ELSE { p.log[i].ok : i \in same }

Init ==
    /\ tool_installed \in BOOLEAN
    /\ config \in Configs
    /\ source_dir \in SUBSET FileNames
    /\ Cardinality(ImagesIn(source_dir)) > 1 => config \in SmallConfigs
    /\ images \in [ImagesIn(source_dir) -> ProfilesFor(config, source_dir)]
    /\ out_exists \in BOOLEAN
    /\ out = EmptyFS
    /\ listing = << >>
    /\ idx = 1
    /\ pc = "start"
    /\ err = "none"
    /\ filename = NoFile
    /\ low = 0 /\ high = 0 /\ best_quality = 0 /\ quality = 0
    /\ image_count = 0
    /\ summary = "none"
    /\ search_calls = 0
    /\ final_calls = 0
    /\ tests = << >>
    /\ last_cmd = NoCmd
    /\ last_ok = TRUE
    /\ last_eval = [ref |-> NoFile, cand |-> NoFile, content |-> "none"]
    /\ log = << >>
    /\ prev = NoPrev
    /\ pixels = NoPixels
    /\ measured = NotMeasured

\* ---------------------------------------------------------------- actions
Bump(n) == IF n < CallCap THEN n + 1 ELSE n

Record(h, t) == IF Len(h) < CallCap THEN Append(h, t) ELSE h

search_vars == << low, high, best_quality, quality >>
Log(l, cmd, ok) == IF Len(l) < LogCap THEN Append(l, [cmd |-> cmd, ok |-> ok]) ELSE l

hist_vars == << search_calls, final_calls, tests, last_cmd, last_ok, last_eval, log >>
env_vars == << tool_installed, config, source_dir, images, prev, pixels, measured >>

\* Lines 51-53: the encoder is missing and the function returns.
ToolMissing ==
    /\ pc = "start"
    /\ ~is_tool_installed(tool_installed)
    /\ pc' = "done"
    /\ summary' = "tool missing"
    /\ UNCHANGED << env_vars, out_exists, out, listing, idx, err, filename,
                    search_vars, image_count, hist_vars >>

\* Lines 55-63: the output folder is created and the source folder listed.
StartBatch ==
    /\ pc = "start"
    /\ is_tool_installed(tool_installed)
    /\ out_exists' = TRUE
    /\ image_count' = 0
    /\ listing' \in listdir(source_dir, prev)
    /\ idx' = 1
    /\ pc' = "loop"
    /\ UNCHANGED << env_vars, out, err, filename, search_vars, summary, hist_vars >>

\* Lines 63-65: a file without a recognized extension is skipped.
SkipFile ==
    /\ pc = "loop"
    /\ idx <= Len(listing)
    /\ ~IsImage(listing[idx])
    /\ idx' = idx + 1
    /\ UNCHANGED << env_vars, out_exists, out, listing, pc, err, filename,
                    search_vars, image_count, summary, hist_vars >>

\* Lines 63-77: the next image's search is set up.
BeginImage ==
    /\ pc = "loop"
    /\ idx <= Len(listing)
    /\ IsImage(listing[idx])
    /\ filename' = listing[idx]
    /\ low' = config.floor
    /\ high' = config.ceiling
    /\ best_quality' = InitBest(config)
    /\ pc' = "search"
    /\ search_calls' = 0
    /\ final_calls' = 0
    /\ tests' = << >>
    /\ UNCHANGED << env_vars, out_exists, out, listing, idx, err, quality,
                    image_count, summary, last_cmd, last_ok, last_eval, log >>

\* Lines 79-97: one iteration of the while loop; ok is cwebp's exit status.
SearchStep(ok) ==
    /\ pc = "search"
    /\ LoopCond(low, high)
    /\ LET q     == Midpoint(low, high)
           cmd   == SearchCmd(q, filename, temp_path)
           fs    == cwebp(cmd, out, ok)
           score == calculate_ssim(filename, temp_path, fs, images)
       IN  /\ quality' = q
           /\ out' = fs
           /\ last_cmd' = cmd
           /\ last_ok' = ok
           /\ log' = Log(log, cmd, ok)
           /\ search_calls' = Bump(search_calls)
           /\ IF CalledProcessError(TRUE, ok)
              THEN /\ pc' = "crashed"
                   /\ err' = "CalledProcessError"
                   /\ UNCHANGED << low, high, best_quality, tests, last_eval >>
              ELSE /\ tests' = Record(tests, [q |-> q, score |-> score])
                   /\ last_eval' = [ref |-> filename, cand |-> temp_path,
                                    content |-> IF exists(fs, temp_path)
                                                THEN fs[temp_path] ELSE "none"]
                   /\ IF MeetsTarget(score)
                      THEN /\ best_quality' = q
                           /\ high' = HighAfterMet(q)
                           /\ low' = low
                      ELSE /\ low' = LowAfterMiss(q)
                           /\ UNCHANGED << high, best_quality >>
                   /\ UNCHANGED << pc, err >>
    /\ UNCHANGED << env_vars, out_exists, listing, idx, filename, image_count,
                    summary, final_calls >>

\* Lines 99-113: the final encode, the removal of the scratch file and the
\* bookkeeping that follows, up to the next turn of the for loop.
FinalEncode(ok) ==
    /\ pc = "search"
    /\ ~LoopCond(low, high)
    /\ LET cmd == FinalCmd(best_quality, filename, output_path(filename))
           fs1 == cwebp(cmd, out, ok)
           fs2 == IF exists(fs1, temp_path) THEN remove(fs1, temp_path) ELSE fs1
       IN  /\ last_cmd' = cmd
           /\ last_ok' = ok
           /\ log' = Log(log, cmd, ok)
           /\ final_calls' = Bump(final_calls)
           /\ IF CalledProcessError(TRUE, ok)
              THEN /\ out' = fs1
                   /\ pc' = "crashed"
                   /\ err' = "CalledProcessError"
                   /\ UNCHANGED << idx, image_count >>
              ELSE /\ out' = fs2
                   /\ IF exists(fs2, output_path(filename))
                      THEN /\ image_count' = image_count + 1
                           /\ idx' = idx + 1
                           /\ pc' = "loop"
                           /\ err' = err
                      ELSE /\ pc' = "crashed"
                           /\ err' = "FileNotFoundError"
                           /\ UNCHANGED << idx, image_count >>
    /\ UNCHANGED << env_vars, out_exists, listing, filename, search_vars,
                    summary, search_calls, tests, last_eval >>

\* Lines 122-128: the for loop is exhausted and the summary is printed.
Finish ==
    /\ pc = "loop"
    /\ idx > Len(listing)
    /\ pc' = "done"
    /\ summary' = IF image_count > 0 THEN "count" ELSE "no images"
    /\ UNCHANGED << env_vars, out_exists, out, listing, idx, err, filename,
                    search_vars, image_count, hist_vars >>

SearchIteration ==
    \E ok \in ExitStatuses(SearchCmd(Midpoint(low, high), filename, temp_path), prev) :
        SearchStep(ok)

FinalPass ==
    \E ok \in ExitStatuses(FinalCmd(best_quality, filename, output_path(filename)), prev) :
        FinalEncode(ok)

Next ==
    \/ ToolMissing
    \/ StartBatch
    \/ SkipFile
    \/ BeginImage
    \/ SearchIteration
    \/ FinalPass
    \/ Finish

Spec == Init /\ [][Next]_vars

\* -------------------------------------------------------------- two runs
\* The script is started again on the same folders after a first run ended:
\* a new process, whose variables start afresh, on the files the first left.
Rerun ==
    /\ pc \in {"done", "crashed"}
    /\ prev.pc = "none"
    /\ prev' = [pc |-> pc, err |-> err, out |-> out, listing |-> listing,
                log |-> log, image_count |-> image_count]
    /\ listing' = << >>
    /\ idx' = 1
    /\ pc' = "start"
    /\ err' = "none"
    /\ filename' = NoFile
    /\ low' = 0 /\ high' = 0 /\ best_quality' = 0 /\ quality' = 0
    /\ image_count' = 0
    /\ summary' = "none"
    /\ search_calls' = 0
    /\ final_calls' = 0
    /\ tests' = << >>
    /\ last_cmd' = NoCmd
    /\ last_ok' = TRUE
    /\ last_eval' = [ref |-> NoFile, cand |-> NoFile, content |-> "none"]
    /\ log' = << >>
    /\ UNCHANGED << tool_installed, config, source_dir, images, out_exists, out,
                    pixels, measured >>

InitTwice == Init /\ config \in SmallConfigs

NextTwice == Next \/ Rerun

SpecTwice == InitTwice /\ [][NextTwice]_vars

\* ------------------------------------------------- the evaluator alone
PixelArrays ==
    { [readable |-> TRUE, px |-> a] : a \in [1 .. NPix -> 0 .. MaxPixel] }
        \cup {Unreadable}

InitSsim ==
    /\ pixels \in [ref : PixelArrays, cand : PixelArrays, given : {TRUE}]
    /\ measured = NotMeasured
    /\ tool_installed = FALSE
    /\ config = DefaultConfig
    /\ source_dir = {}
    /\ images = EmptyFS
    /\ out_exists = FALSE
    /\ out = EmptyFS
    /\ listing = << >>
    /\ idx = 1
    /\ pc = "start"
    /\ err = "none"
    /\ filename = NoFile
    /\ low = 0 /\ high = 0 /\ best_quality = 0 /\ quality = 0
    /\ image_count = 0
    /\ summary = "none"
    /\ search_calls = 0
    /\ final_calls = 0
    /\ tests = << >>
    /\ last_cmd = NoCmd
    /\ last_ok = TRUE
    /\ last_eval = [ref |-> NoFile, cand |-> NoFile, content |-> "none"]
    /\ log = << >>
    /\ prev = NoPrev

\* calculate_ssim is called on the two images.
Evaluate ==
    /\ measured = NotMeasured
    /\ pixels.given
    /\ measured' = [done |-> TRUE,
                    score |-> calculate_ssim_arrays(pixels.ref, pixels.cand)]
    /\ UNCHANGED << tool_installed, config, source_dir, images, out_exists, out,
                    listing, idx, pc, err, filename, low, high, best_quality,
                    quality, image_count, summary, search_calls, final_calls,
                    tests, last_cmd, last_ok, last_eval, log, prev, pixels >>

NextSsim == Evaluate

SpecSsim == InitSsim /\ [][NextSsim]_vars

\* =================================================================== claims
\* The score the evaluator gives image f's encoding at quality q.
SimilarityAt(f, q) ==
    calculate_ssim(f, temp_path,
                   cwebp(SearchCmd(q, f, temp_path), EmptyFS, TRUE), images)

\* The qualities of the configured range that meet the target for image f.
Qualifying(f) == { q \in Range(config) : SimilarityAt(f, q) >= TARGET_SSIM }

\* Meeting the target is monotone in quality for image f.
MonotoneSimilarity(f) ==
    LET Q == Qualifying(f)
    IN  \A q1 \in Q : \A q2 \in Range(config) : q1 <= q2 => q2 \in Q

Least(S) == CHOOSE x \in S : \A y \in S : x <= y

InImage == filename \in DOMAIN images

\* The while loop of the current image has exited and the final encode has
\* not run yet.
SearchEnded == pc = "search" /\ low > high /\ InImage

MetTests == { i \in 1 .. Len(tests) : tests[i].score >= TARGET_SSIM }

TestedQualities == { tests[i].q : i \in 1 .. Len(tests) }

RECURSIVE CeilLog2From(_, _, _)
CeilLog2From(n, k, p) == IF p >= n THEN k ELSE CeilLog2From(n, k + 1, 2 * p)

CeilLog2(n) == CeilLog2From(n, 0, 1)

CallBound(cfg) == CeilLog2(cfg.ceiling - cfg.floor + 1) + 1

\* ---------------------------------------------------------------------- C1
\* C1 as stated: when the search ends, best_quality is the smallest quality
\* of [floor, ceiling] whose encoding meets the target, whenever one exists.
C1_LowestQualifying ==
    SearchEnded =>
        LET Q == Qualifying(filename)
        IN  Q # {} => best_quality = Least(Q)

\* C1 amended: the same, provided that meeting the target is monotone in
\* quality (every quality above a qualifying one qualifies too).
C1_LowestQualifyingIfMonotone ==
    SearchEnded =>
        LET Q == Qualifying(filename)
        IN  (Q # {} /\ MonotoneSimilarity(filename)) => best_quality = Least(Q)

C1_Witness ==
    /\ SearchEnded
    /\ config = DefaultConfig
    /\ config.floor < best_quality /\ best_quality < config.ceiling
    /\ best_quality = Least(Qualifying(filename))
    /\ MonotoneSimilarity(filename)

\* ---------------------------------------------------------------------- C2
\* C2: for every floor <= ceiling and every outcome of the measurements, an
\* image's search makes at most ceil(log2(ceiling - floor + 1)) + 1 encoder
\* invocations, every one of them while low <= high still held; when the
\* loop has exited the final invocation is the next step, and an image whose
\* processing went past it has had exactly one final invocation.
C2_BoundedSearchThenOneFinal ==
    /\ search_calls <= CallBound(config)
    /\ final_calls <= 1
    /\ SearchEnded => (final_calls = 0 /\ ENABLED FinalPass /\ ~ENABLED SearchIteration)
    /\ (pc = "loop" /\ InImage) => final_calls = 1
    /\ final_calls = 1 => low > high

C2_Witness ==
    /\ pc = "loop"
    /\ InImage
    /\ final_calls = 1
    /\ search_calls >= 3
    /\ search_calls = CallBound(config)
    /\ ~MonotoneSimilarity(filename)

\* ---------------------------------------------------------------------- C3
\* C3: if no tested quality met the target, then at the end of the search
\* best_quality is the ceiling and no exception has been raised, and the
\* final encoder invocation is made at the ceiling quality, writing the
\* image's output path.
C3_FallbackToCeiling ==
    (InImage /\ MetTests = {}) =>
        /\ SearchEnded => (best_quality = config.ceiling /\ err = "none")
        /\ final_calls = 1 =>
              last_cmd = FinalCmd(config.ceiling, filename, output_path(filename))
        /\ (final_calls = 1 /\ last_ok /\ exists(out, output_path(filename))) =>
              out[output_path(filename)].q = config.ceiling

C3_Witness ==
    /\ pc = "loop"
    /\ InImage
    /\ final_calls = 1
    /\ MetTests = {}
    /\ Len(tests) >= 6
    /\ images[filename].readable
    /\ exists(out, output_path(filename))
    /\ out[output_path(filename)].q = config.ceiling

\* ---------------------------------------------------------------------- C4
C4_Scenario ==
    /\ InImage
    /\ config = DefaultConfig
    /\ SimilarityAt(filename, 60) = 990
    /\ SimilarityAt(filename, 50) = 970

C4_Converged ==
    /\ SearchEnded => best_quality = 60
    /\ final_calls = 1 => last_cmd = FinalCmd(60, filename, output_path(filename))
    /\ (final_calls = 1 /\ last_ok /\ exists(out, output_path(filename))) =>
          (out[output_path(filename)].q = 60 /\ out[output_path(filename)].sharp_yuv)

\* C4 as stated: with floor 40, ceiling 95, target 0.98, similarity 0.99 at
\* quality 60 and 0.97 at quality 50, the search converges to 60 and the
\* final artifact is encoded at 60 with the filters enabled.
C4_ConvergesTo60 == C4_Scenario => C4_Converged

\* C4 amended: the same, when in addition the similarity is monotone in
\* quality and is below the target at quality 59.
C4_ConvergesTo60IfThresholdAt60 ==
    (C4_Scenario /\ (SearchEnded \/ final_calls = 1)
                 /\ SimilarityAt(filename, 59) < TARGET_SSIM
                 /\ MonotoneSimilarity(filename)) => C4_Converged

C4_Witness ==
    /\ pc = "loop"
    /\ final_calls = 1
    /\ best_quality = 60
    /\ C4_Scenario
    /\ exists(out, output_path(filename))
    /\ out[output_path(filename)].q = 60
    /\ out[output_path(filename)].sharp_yuv
    /\ SimilarityAt(filename, 59) < TARGET_SSIM
    /\ MonotoneSimilarity(filename)

\* ---------------------------------------------------------------------- C5
\* C5 as stated: when an encoder invocation fails for one image, the batch
\* goes on: every other image of the source folder is still processed and
\* its output artifact emitted.  (A run that ended is in "done" or "crashed".)
C5_BatchContinuesAfterEncoderFailure ==
    (pc \in {"done", "crashed"} /\ err = "CalledProcessError") =>
        \A f \in ImagesIn(source_dir) \ {filename} :
            /\ \E i \in 1 .. idx - 1 : listing[i] = f
            /\ exists(out, output_path(f))

\* ---------------------------------------------------------------------- C6
\* C6: a search iteration whose encoder invocation fails performs no
\* evaluation and leaves the search state as it was, and after it no search
\* iteration and no final encode runs for that image.
C6_SearchStopsOnEncoderFailure ==
    /\ [][(pc = "search" /\ low <= high /\ ~last_ok') =>
             /\ tests' = tests
             /\ last_eval' = last_eval
             /\ << low, high, best_quality >>' = << low, high, best_quality >>
             /\ pc' = "crashed"
             /\ final_calls' = 0]_vars
    /\ [][pc = "crashed" =>
             (search_calls' = search_calls /\ final_calls' = final_calls
              /\ tests' = tests /\ out' = out)]_vars

C6_Witness ==
    /\ pc = "crashed"
    /\ err = "CalledProcessError"
    /\ ~last_ok
    /\ final_calls = 0
    /\ search_calls >= 2
    /\ Len(tests) = search_calls - 1
    /\ low <= high

\* ---------------------------------------------------------------------- C7
\* C7 as stated: a failing evaluation scores 0 and never aborts the batch;
\* the search moves strictly higher, and when every evaluation of an image
\* fails the search exhausts the range, falls back to the ceiling, and the
\* image's final artifact is still emitted (once its final encode succeeds).
C7_EvaluationFailureStillEmits ==
    (InImage /\ ~images[filename].readable) =>
        /\ \A i \in 1 .. Len(tests) : tests[i].score = 0
        /\ pc = "search" => low = IF tests = << >> THEN config.floor
                                  ELSE tests[Len(tests)].q + 1
        /\ SearchEnded => (best_quality = config.ceiling /\ low = config.ceiling + 1)
        /\ (final_calls = 1 /\ last_ok) =>
              (pc # "crashed" /\ exists(out, output_path(filename)))

\* ---------------------------------------------------------------------- C8
\* C8 as stated: after a batch run in which no encoder invocation failed,
\* the output folder holds exactly one artifact per input with a recognized
\* extension, named by the input's base name with the .webp extension.
C8_OneOutputPerInput ==
    (pc \in {"done", "crashed"} /\ tool_installed /\ err # "CalledProcessError") =>
        /\ DOMAIN out = { output_path(f) : f \in ImagesIn(source_dir) }
        /\ Cardinality(DOMAIN out) = Cardinality(ImagesIn(source_dir))

\* ---------------------------------------------------------------------- C9
\* C9 as stated: whenever processing of an image has ended, on every exit
\* path, no scratch artifact of its search remains: the only file persisted
\* for the image is its final encode.
C9_NoScratchRemains ==
    (pc \in {"loop", "done", "crashed"} /\ InImage) =>
        \A p \in DOMAIN out :
            out[p].src = filename => (p = output_path(filename) /\ out[p].sharp_yuv)

\* --------------------------------------------------------------------- C10
\* C10: during one image's search best_quality never increases: an iteration
\* whose similarity meets the target sets it to the tested quality, which is
\* at most its previous value, and an iteration that misses leaves it as is.
C10_BestQualityNonIncreasing ==
    /\ [][(pc = "search" /\ pc' = "search") => best_quality' <= best_quality]_vars
    /\ [][(pc = "search" /\ Len(tests') = Len(tests) + 1) =>
             LET t == tests'[Len(tests')]
             IN  IF t.score >= TARGET_SSIM
                 THEN best_quality' = t.q /\ best_quality' <= best_quality
                 ELSE best_quality' = best_quality]_vars

C10_Witness ==
    /\ pc = "search"
    /\ \E i, j \in MetTests :
          /\ i < j
          /\ tests[j].q < tests[i].q
          /\ best_quality = tests[j].q
    /\ \E i \in 1 .. Len(tests) : i \notin MetTests

\* --------------------------------------------------------------------- C11
\* C11: every search-phase encoder invocation runs at the configured effort,
\* at the midpoint quality, writing the scratch path, with no filter flag;
\* the single final invocation runs at quality best_quality with the same
\* effort and the filter enabled, writing the output path.
C11_FiltersOnlyInFinalPass ==
    /\ [][(pc = "search" /\ low <= high) =>
             /\ last_cmd'.q = quality'
             /\ last_cmd'.m = WEBP_METHOD
             /\ ~last_cmd'.sharp_yuv
             /\ last_cmd'.o = temp_path
             /\ final_calls' = 0]_vars
    /\ [][(pc = "search" /\ low > high) =>
             /\ last_cmd'.q = best_quality
             /\ last_cmd'.m = WEBP_METHOD
             /\ last_cmd'.sharp_yuv
             /\ last_cmd'.o = output_path(filename)
             /\ final_calls' = 1]_vars

C11_Witness ==
    /\ pc = "loop"
    /\ InImage
    /\ final_calls = 1
    /\ search_calls >= 2
    /\ last_cmd.sharp_yuv
    /\ last_cmd.q = best_quality
    /\ best_quality < config.ceiling
    /\ exists(out, output_path(filename))
    /\ out[output_path(filename)].sharp_yuv

\* --------------------------------------------------------------------- C12
\* C12: when the encoder tool is missing the batch does not run: no encoder
\* is invoked, no image is processed, and the output folder (its existence
\* and its files) is left as it was.
C12_ToolMissingRunsNothing ==
    /\ [](~tool_installed =>
             /\ pc \in {"start", "done"}
             /\ last_cmd = NoCmd
             /\ filename = NoFile
             /\ image_count = 0
             /\ out = EmptyFS)
    /\ [][~tool_installed => (out_exists' = out_exists /\ out' = out)]_vars

C12_Witness ==
    /\ ~tool_installed
    /\ pc = "done"
    /\ summary = "tool missing"
    /\ ~out_exists
    /\ Cardinality(ImagesIn(source_dir)) >= 2

\* --------------------------------------------------------------------- C13
\* C13: a second run on the unchanged source folder, with the unchanged
\* configuration and a deterministic encoder and evaluator, leaves the same
\* output files with the same contents as the first run left.
C13_SecondRunSameOutputs ==
    (prev.pc # "none" /\ pc \in {"done", "crashed"}) =>
        /\ DOMAIN out = DOMAIN prev.out
        /\ out = prev.out

C13_Witness ==
    /\ prev.pc = "done"
    /\ pc = "done"
    /\ prev.image_count >= 2
    /\ image_count = prev.image_count
    /\ Len(log) >= 4
    /\ Cardinality(DOMAIN out) >= 1
    /\ out = prev.out

\* --------------------------------------------------------------------- C14
\* The images whose final encode has completed (exited with status 0) in
\* this run.
FinalEncoded ==
    { log[i].cmd.input : i \in { j \in 1 .. Len(log) : log[j].ok /\ log[j].cmd.sharp_yuv } }

\* C14: at every point of a run the image counter equals the number of
\* images whose final encode has completed and whose output artifact exists.
C14_CountsCompletedImages ==
    image_count = Cardinality({ f \in FinalEncoded : exists(out, output_path(f)) })

C14_Witness ==
    /\ pc = "crashed"
    /\ err = "CalledProcessError"
    /\ image_count = 1
    /\ final_calls = 1
    /\ Cardinality(ImagesIn(source_dir)) >= 2

\* --------------------------------------------------------------------- C16
NoRasterFile ==
    \A f \in source_dir : lower(f.ext) \notin {".png", ".jpg", ".jpeg"}

\* C16: when the source folder holds no file with a recognized raster
\* extension (and the tool is installed), the run raises no exception and
\* goes on until it has ended, starts no encoder, writes no file into the
\* output folder, and reports that no image was processed.
C16_NoImagesNoWork ==
    (tool_installed /\ NoRasterFile) =>
        /\ pc \in {"start", "loop", "done"}
        /\ err = "none"
        /\ pc # "done" => ENABLED Next
        /\ log = << >>
        /\ last_cmd = NoCmd
        /\ out = EmptyFS
        /\ image_count = 0
        /\ pc = "done" => summary = "no images"

C16_Witness ==
    /\ tool_installed
    /\ NoRasterFile
    /\ source_dir # {}
    /\ pc = "done"
    /\ idx = 2
    /\ summary = "no images"

\* --------------------------------------------------------------------- C17
\* C17: in every state of an image's search floor <= low <= high + 1 <=
\* ceiling + 1 and floor <= best_quality <= ceiling; every tested midpoint
\* lies in [low, high], and every iteration strictly shrinks [low, high].
C17_SearchInterval ==
    /\ [](pc = "search" =>
             /\ config.floor <= low
             /\ low <= high + 1
             /\ high <= config.ceiling
             /\ config.floor <= best_quality
             /\ best_quality <= config.ceiling)
    /\ [][(pc = "search" /\ low <= high) =>
             (low <= quality' /\ quality' <= high)]_vars
    /\ [][(pc = "search" /\ low <= high /\ pc' = "search") =>
             /\ high' - low' < high - low
             /\ low <= low'
             /\ high' <= high]_vars

C17_Witness ==
    /\ pc = "search"
    /\ low = high + 1
    /\ Len(tests) >= 6
    /\ config.floor < low
    /\ high < config.ceiling
    /\ config.floor < best_quality
    /\ best_quality < config.ceiling

\* --------------------------------------------------------------------- C18
\* C18: when an image's search ends, whatever the outcomes were: if some
\* tested quality met the target, best_quality was tested and met it, and
\* best_quality is the floor or best_quality - 1 was tested and missed; if
\* none met it, the ceiling was tested and missed.
C18_BestIsLocalBoundary ==
    SearchEnded =>
        IF MetTests # {}
        THEN /\ \E i \in MetTests : tests[i].q = best_quality
             /\ \/ best_quality = config.floor
                \/ \E j \in (1 .. Len(tests)) \ MetTests : tests[j].q = best_quality - 1
        ELSE \E j \in 1 .. Len(tests) :
                 tests[j].q = config.ceiling /\ tests[j].score < TARGET_SSIM

C18_Witness ==
    /\ SearchEnded
    /\ MetTests # {}
    /\ config.floor < best_quality
    /\ best_quality < config.ceiling
    /\ \E j \in (1 .. Len(tests)) \ MetTests : tests[j].q = best_quality - 1
    /\ ~MonotoneSimilarity(filename)

\* --------------------------------------------------------------------- C19
\* C19: every similarity evaluation, in every iteration of every image of a
\* batch, compares the current source image with the scratch file that the
\* same iteration's encoder invocation wrote from that source at the current
\* midpoint; a scratch file of an earlier iteration or image is never read.
C19_EvaluatesFreshScratch ==
    [][(pc = "search" /\ tests' # tests) =>
          /\ last_ok'
          /\ last_cmd' = SearchCmd(quality', filename, temp_path)
          /\ quality' = Midpoint(low, high)
          /\ last_eval'.ref = filename
          /\ last_eval'.cand = temp_path
          /\ last_eval'.content =
                 [src |-> filename, q |-> quality', m |-> WEBP_METHOD,
                  sharp_yuv |-> FALSE]
          /\ tests'[Len(tests')].q = quality']_vars

C19_Witness ==
    /\ pc = "search"
    /\ idx >= 2
    /\ image_count >= 1
    /\ Len(tests) >= 2
    /\ last_eval.ref = filename
    /\ last_eval.content = [src |-> filename, q |-> quality, m |-> WEBP_METHOD,
                            sharp_yuv |-> FALSE]
    /\ \E i \in 1 .. Len(log) : log[i].cmd.input # filename

\* --------------------------------------------------------------------- C15
\* C15 as stated: the score the evaluator returns is always in [0, 1], for
\* every pair of inputs, also when the evaluation fails (score 0) and when
\* the candidate's pixel values are all equal.
C15_ScoreInUnitInterval ==
    measured.done =>
        /\ ~measured.score.nan
        /\ 0 <= measured.score.value
        /\ measured.score.value <= 1000

====
